---- MODULE Spec2Model ----
(***************************************************************************)
(* A state-machine model of guardian_life_scraper_github.py: one run of    *)
(* main() -- the listing loop, the detail loop, the merge, the export and  *)
(* the run-history bookkeeping -- against a job server, a disk and a       *)
(* console that may fail.                                                  *)
(*                                                                         *)
(* Not modelled: the wall clock (the timestamp and date of a history entry *)
(* and of a row), the column renaming and the HTML stripping, which change *)
(* no row count and no control flow; a failure of the history file's own   *)
(* write.                                                                  *)
(***************************************************************************)
EXTENDS Integers, Sequences, FiniteSets, TLC

\* ------------------------------------------------------------------ bounds
\* longest job catalogue of the server enumerated posting by posting
MaxCatalogue == 2
\* most entries of a run history already on disk when main() starts
MaxPrior == 1

\* ------------------------------------------------------- program constants
\* range(0, 500, 20)
RangeStop == 500
RangeStep == 20
\* 'limit': 20
Limit == 20

EXPORT_CONFIG == [save_excel |-> TRUE, save_csv |-> TRUE, save_json |-> TRUE]

\* ------------------------------------------------------------------ values
BulletFields == {"b1", "b2"}
ExternalPaths == {"/job/1", "/job/2"}
Listings == [bulletFields : BulletFields, externalPath : ExternalPaths]

NoneVal == "None"
NaN == "NaN"

SeqsUpTo(S, n) == UNION {[1..m -> S] : m \in 0..n}

\* a long catalogue: two postings alternating
LargeItem(i) ==
    IF i % 2 = 1 THEN [bulletFields |-> "b1", externalPath |-> "/job/1"]
    ELSE [bulletFields |-> "b2", externalPath |-> "/job/2"]
LargeSizes == {Limit, 2 * Limit, RangeStop, RangeStop + Limit}
Catalogues ==
    SeqsUpTo(Listings, MaxCatalogue) \cup {[i \in 1..n |-> LargeItem(i)] : n \in LargeSizes}

PriorEntries ==
    { [status |-> "success", records_scraped |-> 1, error |-> NoneVal],
      [status |-> "error", records_scraped |-> 0, error |-> "'perma'"] }
HistoryFiles ==
    { [kind |-> "absent", entries |-> <<>>], [kind |-> "malformed", entries |-> <<>>] }
    \cup { [kind |-> "list", entries |-> h] : h \in SeqsUpTo(PriorEntries, MaxPrior) }

Formats == <<"excel", "csv", "json">>
NoFile == [exists |-> FALSE, rows |-> <<>>]

VARIABLES
    catalogue,            \* the postings the server holds
    pc,                   \* position of the run in main() / scrape_jobs()
    offset,               \* i of the listing loop
    collect_list_roles,
    roles_df,
    k,                    \* position of the detail loop in roles_df
    collect_role_details,
    final_df,             \* the merged table of scrape_jobs
    df,                   \* what scrape_jobs returned to main
    exported_files,
    output_files,         \* OUTPUT_FOLDER: format -> file
    history_file,         \* LOG_FOLDER/run_history.json
    history_at_start,     \* its content when main() was called
    exc,                  \* the exception caught by main's handler
    raised,               \* the exception main() let out
    in_flight,            \* HTTP requests issued and not yet answered
    requests,             \* log of the requests issued
    responses,            \* log of the listing responses
    detail_outcomes       \* log of the detail responses

vars == << catalogue, pc, offset, collect_list_roles, roles_df, k,
           collect_role_details, final_df, df, exported_files, output_files,
           history_file, history_at_start, exc, raised, in_flight, requests,
           responses, detail_outcomes >>

\* ---------------------------------------------------------------- helpers
Min(a, b) == IF a < b THEN a ELSE b

\* the server's answer to {'limit': 20, 'offset': o}
Page(o) ==
    IF o >= Len(catalogue) THEN <<>>
    ELSE SubSeq(catalogue, o + 1, Min(o + Limit, Len(catalogue)))

\* faulty variant: the except clause returns nothing
RoleListCollect_NoReturn(outcome, o) ==
    CASE outcome = "ok" -> [type |-> "dict", haskey |-> TRUE, jobPostings |-> Page(o)]
      [] outcome = "nokey" -> [type |-> "dict", haskey |-> FALSE, jobPostings |-> <<>>]
      [] outcome = "null" -> [type |-> "none", haskey |-> FALSE, jobPostings |-> <<>>]
      [] outcome = "fail" -> [type |-> "none", haskey |-> FALSE, jobPostings |-> <<>>]

\* role_list_collect: the parsed body, or the empty page of the except clause
RoleListCollect(outcome, o) ==
    CASE outcome = "ok" -> [type |-> "dict", haskey |-> TRUE, jobPostings |-> Page(o)]
      [] outcome = "nokey" -> [type |-> "dict", haskey |-> FALSE, jobPostings |-> <<>>]
      [] outcome = "null" -> [type |-> "none", haskey |-> FALSE, jobPostings |-> <<>>]
      [] outcome = "fail" -> [type |-> "dict", haskey |-> TRUE, jobPostings |-> <<>>]

\* faulty variant: the loop breaks only when the key is missing
PageEmpty_KeyOnly(results) == ~results.haskey

\* not results.get('jobPostings')
PageEmpty(results) == ~results.haskey \/ results.jobPostings = <<>>

\* the document of a posting
DetailDoc(perma) == [jobPostingInfo |-> perma]

\* role_details_fetch: the parsed body, or {} of the except clause
RoleDetailsFetch(outcome, perma) ==
    IF outcome = "ok" THEN [empty |-> FALSE, jobPostingInfo |-> DetailDoc(perma).jobPostingInfo]
    ELSE [empty |-> TRUE, jobPostingInfo |-> NaN]

\* faulty variant: a failed fetch is tried again
NextDetail_Retry(i, result) == IF result.empty THEN i ELSE i + 1

\* the detail loop moves on to the next path whatever the result
NextDetail(i, result) == i + 1

\* the positions of rows that hold the first row of their bulletFields value
FirstOccurrences(rows) ==
    {i \in 1..Len(rows) : \A j \in 1..(i - 1) : rows[j].bulletFields # rows[i].bulletFields}

\* drop_duplicates(['bulletFields']): the first row of each bulletFields value,
\* in the order of the rows
DropDuplicates(rows) ==
    LET keep == FirstOccurrences(rows) IN
    [n \in 1..Cardinality(keep) |->
        rows[CHOOSE i \in keep : Cardinality({j \in keep : j < i}) = n - 1]]

RECURSIVE MatchRows(_, _)
\* the rows one listing row joins to: one per detail record of its path
MatchRows(left, right) ==
    IF right = <<>> THEN <<>>
    ELSE (IF Head(right).perma = left.externalPath
          THEN << [externalPath |-> left.externalPath, bulletFields |-> left.bulletFields,
                   perma |-> Head(right).perma,
                   jobPostingInfo |-> Head(right).jobPostingInfo] >>
          ELSE <<>>) \o MatchRows(left, Tail(right))

RECURSIVE LeftMerge(_, _)
\* pd.merge(roles_df, roledetails_df, left_on='externalPath', right_on='perma', how='left')
LeftMerge(left, right) ==
    IF left = <<>> THEN <<>>
    ELSE (IF MatchRows(Head(left), right) = <<>>
          THEN << [externalPath |-> Head(left).externalPath,
                   bulletFields |-> Head(left).bulletFields,
                   perma |-> NaN, jobPostingInfo |-> NaN] >>
          ELSE MatchRows(Head(left), right)) \o LeftMerge(Tail(left), right)

\* final_df[available_cols]: the job columns of every merged row
Project(rows) == [i \in 1..Len(rows) |-> [Job |-> rows[i].jobPostingInfo]]

\* str(e)
ExcText(e) ==
    CASE e = "KeyError" -> "'perma'"
      [] e = "TypeError" -> "argument of type 'NoneType' is not iterable"
      [] e = "OSError" -> "write failed"
      [] e = "UnicodeEncodeError" -> "codec can't encode character"
      [] OTHER -> ""

HistoryEntry(status, records_count, error) ==
    [status |-> status, records_scraped |-> records_count,
     error |-> IF error # NoneVal THEN ExcText(error) ELSE NoneVal]

\* faulty variant: the record count is left at its default
SuccessEntry_NoCount(table) == HistoryEntry("success", 0, NoneVal)

\* save_run_history('success', len(df))
SuccessEntry(table) == HistoryEntry("success", Len(table), NoneVal)

\* json.load of the history file; [] when it is missing or does not parse
LoadHistory(file) == IF file.kind = "list" THEN file.entries ELSE <<>>

\* faulty variant: the file is rewritten without the entries it held
SaveRunHistory_Overwrite(file, entry) == [kind |-> "list", entries |-> <<entry>>]

\* save_run_history: load, append, rewrite
SaveRunHistory(file, entry) ==
    [kind |-> "list", entries |-> Append(LoadHistory(file), entry)]

ListReq(o) == [kind |-> "list", offset |-> o, path |-> ""]
DetailReq(p) == [kind |-> "detail", offset |-> -1, path |-> p]

\* ------------------------------------------------------------------- Init
Init ==
    /\ catalogue \in Catalogues
    /\ history_file \in HistoryFiles
    /\ history_at_start = history_file
    /\ pc = "start"
    /\ offset = 0
    /\ collect_list_roles = <<>>
    /\ roles_df = <<>>
    /\ k = 1
    /\ collect_role_details = <<>>
    /\ final_df = <<>>
    /\ df = [none |-> TRUE, rows |-> <<>>]
    /\ exported_files = <<>>
    /\ output_files = [f \in {"excel", "csv", "json"} |-> NoFile]
    /\ exc = NoneVal
    /\ raised = NoneVal
    /\ in_flight = 0
    /\ requests = <<>>
    /\ responses = <<>>
    /\ detail_outcomes = <<>>

\* ---------------------------------------------------------------- actions
\* main() up to the call of scrape_jobs(), and the entry of the listing loop
MainStart ==
    /\ pc = "start"
    /\ pc' = "list_loop"
    /\ offset' = 0
    /\ collect_list_roles' = <<>>
    /\ UNCHANGED << catalogue, roles_df, k, collect_role_details, final_df, df,
                    exported_files, output_files, history_file, history_at_start,
                    exc, raised, in_flight, requests, responses, detail_outcomes >>

\* role_list_collect(i): requests.post is issued
ListRequest ==
    /\ pc = "list_loop"
    /\ requests' = Append(requests, ListReq(offset))
    /\ in_flight' = in_flight + 1
    /\ pc' = "list_wait"
    /\ UNCHANGED << catalogue, offset, collect_list_roles, roles_df, k,
                    collect_role_details, final_df, df, exported_files, output_files,
                    history_file, history_at_start, exc, raised, responses,
                    detail_outcomes >>

\* requests.post returns or raises; the rest of the loop body
ListResponse ==
    /\ pc = "list_wait"
    /\ \E outcome \in {"ok", "nokey", "null", "fail"} :
         LET results == RoleListCollect(outcome, offset) IN
         /\ responses' = Append(responses,
                [kind |-> outcome, items |-> IF outcome = "ok" THEN Page(offset) ELSE <<>>])
         /\ IF results.type # "dict"
            THEN \* 'jobPostings' in results raises
                 /\ exc' = "TypeError"
                 /\ pc' = "except"
                 /\ UNCHANGED << collect_list_roles, offset >>
            ELSE /\ collect_list_roles' =
                        IF results.haskey THEN collect_list_roles \o results.jobPostings
                        ELSE collect_list_roles
                 /\ IF PageEmpty(results) \/ offset + RangeStep >= RangeStop
                    THEN pc' = "listed" /\ UNCHANGED offset
                    ELSE pc' = "list_loop" /\ offset' = offset + RangeStep
                 /\ UNCHANGED exc
    /\ in_flight' = in_flight - 1
    /\ UNCHANGED << catalogue, roles_df, k, collect_role_details, final_df, df,
                    exported_files, output_files, history_file, history_at_start,
                    raised, requests, detail_outcomes >>

\* after the listing loop: return None, or normalise and drop duplicates
AfterCollect ==
    /\ pc = "listed"
    /\ IF collect_list_roles = <<>>
       THEN /\ df' = [none |-> TRUE, rows |-> <<>>]
            /\ pc' = "main_check"
            /\ UNCHANGED << roles_df, k, collect_role_details >>
       ELSE /\ roles_df' = DropDuplicates(collect_list_roles)
            /\ collect_role_details' = <<>>
            /\ k' = 1
            /\ pc' = "detail_loop"
            /\ UNCHANGED df
    /\ UNCHANGED << catalogue, offset, collect_list_roles, final_df, exported_files,
                    output_files, history_file, history_at_start, exc, raised,
                    in_flight, requests, responses, detail_outcomes >>

\* role_details_fetch(perma): requests.get is issued
DetailRequest ==
    /\ pc = "detail_loop"
    /\ k <= Len(roles_df)
    /\ requests' = Append(requests, DetailReq(roles_df[k].externalPath))
    /\ in_flight' = in_flight + 1
    /\ pc' = "detail_wait"
    /\ UNCHANGED << catalogue, offset, collect_list_roles, roles_df, k,
                    collect_role_details, final_df, df, exported_files, output_files,
                    history_file, history_at_start, exc, raised, responses,
                    detail_outcomes >>

\* requests.get returns or raises; the rest of the loop body
DetailResponse ==
    /\ pc = "detail_wait"
    /\ \E outcome \in {"ok", "empty", "fail"} :
         LET perma == roles_df[k].externalPath
             result == RoleDetailsFetch(outcome, perma) IN
         /\ detail_outcomes' = Append(detail_outcomes, outcome)
         /\ collect_role_details' =
                IF result.empty THEN collect_role_details
                ELSE Append(collect_role_details,
                            [perma |-> perma, jobPostingInfo |-> result.jobPostingInfo])
         /\ k' = NextDetail(k, result)
    /\ in_flight' = in_flight - 1
    /\ pc' = "detail_loop"
    /\ UNCHANGED << catalogue, offset, collect_list_roles, roles_df, final_df, df,
                    exported_files, output_files, history_file, history_at_start,
                    exc, raised, requests, responses >>

\* after the detail loop: the merge, the projection, the return
Merge ==
    /\ pc = "detail_loop"
    /\ k > Len(roles_df)
    /\ IF collect_role_details = <<>>
       THEN \* roledetails_df has no column 'perma'
            /\ exc' = "KeyError"
            /\ pc' = "except"
            /\ UNCHANGED << final_df, df >>
       ELSE /\ final_df' = LeftMerge(roles_df, collect_role_details)
            /\ df' = [none |-> FALSE,
                      rows |-> Project(LeftMerge(roles_df, collect_role_details))]
            /\ pc' = "main_check"
            /\ UNCHANGED exc
    /\ UNCHANGED << catalogue, offset, collect_list_roles, roles_df, k,
                    collect_role_details, exported_files, output_files, history_file,
                    history_at_start, raised, in_flight, requests, responses,
                    detail_outcomes >>

\* if df is None or len(df) == 0
MainCheck ==
    /\ pc = "main_check"
    /\ pc' = IF df.none \/ Len(df.rows) = 0 THEN "no_data" ELSE "export_excel"
    /\ exported_files' = <<>>
    /\ UNCHANGED << catalogue, offset, collect_list_roles, roles_df, k,
                    collect_role_details, final_df, df, output_files, history_file,
                    history_at_start, exc, raised, in_flight, requests, responses,
                    detail_outcomes >>

\* save_run_history('no_data'), the warning banner, return
NoData ==
    /\ pc = "no_data"
    /\ history_file' = SaveRunHistory(history_file, HistoryEntry("no_data", 0, NoneVal))
    /\ \E printed \in BOOLEAN :
         IF printed THEN pc' = "returned" /\ UNCHANGED exc
         ELSE pc' = "except" /\ exc' = "UnicodeEncodeError"
    /\ UNCHANGED << catalogue, offset, collect_list_roles, roles_df, k,
                    collect_role_details, final_df, df, exported_files, output_files,
                    history_at_start, raised, in_flight, requests, responses,
                    detail_outcomes >>

\* export_data: df.to_excel, format_excel
ExportExcel ==
    /\ pc = "export_excel"
    /\ IF ~EXPORT_CONFIG.save_excel
       THEN pc' = "export_csv" /\ UNCHANGED << output_files, exported_files, exc >>
       ELSE \E outcome \in {"ok", "write_fail", "format_fail"} :
              /\ output_files' =
                    IF outcome = "write_fail" THEN output_files
                    ELSE [output_files EXCEPT !["excel"] = [exists |-> TRUE, rows |-> df.rows]]
              /\ IF outcome = "ok"
                 THEN /\ exported_files' = Append(exported_files, "excel")
                      /\ pc' = "export_csv"
                      /\ UNCHANGED exc
                 ELSE /\ exc' = "OSError"
                      /\ pc' = "except"
                      /\ UNCHANGED exported_files
    /\ UNCHANGED << catalogue, offset, collect_list_roles, roles_df, k,
                    collect_role_details, final_df, df, history_file, history_at_start,
                    raised, in_flight, requests, responses, detail_outcomes >>

\* export_data: df.to_csv
ExportCsv ==
    /\ pc = "export_csv"
    /\ IF ~EXPORT_CONFIG.save_csv
       THEN pc' = "export_json" /\ UNCHANGED << output_files, exported_files, exc >>
       ELSE \E written \in BOOLEAN :
              IF written
              THEN /\ output_files' =
                        [output_files EXCEPT !["csv"] = [exists |-> TRUE, rows |-> df.rows]]
                   /\ exported_files' = Append(exported_files, "csv")
                   /\ pc' = "export_json"
                   /\ UNCHANGED exc
              ELSE /\ exc' = "OSError"
                   /\ pc' = "except"
                   /\ UNCHANGED << output_files, exported_files >>
    /\ UNCHANGED << catalogue, offset, collect_list_roles, roles_df, k,
                    collect_role_details, final_df, df, history_file, history_at_start,
                    raised, in_flight, requests, responses, detail_outcomes >>

\* export_data: df.to_json, return exported_files
ExportJson ==
    /\ pc = "export_json"
    /\ IF ~EXPORT_CONFIG.save_json
       THEN pc' = "success" /\ UNCHANGED << output_files, exported_files, exc >>
       ELSE \E written \in BOOLEAN :
              IF written
              THEN /\ output_files' =
                        [output_files EXCEPT !["json"] = [exists |-> TRUE, rows |-> df.rows]]
                   /\ exported_files' = Append(exported_files, "json")
                   /\ pc' = "success"
                   /\ UNCHANGED exc
              ELSE /\ exc' = "OSError"
                   /\ pc' = "except"
                   /\ UNCHANGED << output_files, exported_files >>
    /\ UNCHANGED << catalogue, offset, collect_list_roles, roles_df, k,
                    collect_role_details, final_df, df, history_file, history_at_start,
                    raised, in_flight, requests, responses, detail_outcomes >>

\* save_run_history('success', len(df)), the success banner, return df
Success ==
    /\ pc = "success"
    /\ history_file' = SaveRunHistory(history_file, SuccessEntry(df.rows))
    /\ \E printed \in BOOLEAN :
         IF printed THEN pc' = "returned" /\ UNCHANGED exc
         ELSE pc' = "except" /\ exc' = "UnicodeEncodeError"
    /\ UNCHANGED << catalogue, offset, collect_list_roles, roles_df, k,
                    collect_role_details, final_df, df, exported_files, output_files,
                    history_at_start, raised, in_flight, requests, responses,
                    detail_outcomes >>

\* except Exception as e: save_run_history('error', error=e), the banner, raise
Except ==
    /\ pc = "except"
    /\ history_file' = SaveRunHistory(history_file, HistoryEntry("error", 0, exc))
    /\ \E printed \in BOOLEAN :
         raised' = IF printed THEN exc ELSE "UnicodeEncodeError"
    /\ pc' = "raised"
    /\ UNCHANGED << catalogue, offset, collect_list_roles, roles_df, k,
                    collect_role_details, final_df, df, exported_files, output_files,
                    history_at_start, exc, in_flight, requests, responses,
                    detail_outcomes >>

Next ==
    \/ MainStart
    \/ ListRequest
    \/ ListResponse
    \/ AfterCollect
    \/ DetailRequest
    \/ DetailResponse
    \/ Merge
    \/ MainCheck
    \/ NoData
    \/ ExportExcel
    \/ ExportCsv
    \/ ExportJson
    \/ Success
    \/ Except

Spec == Init /\ [][Next]_vars

\* ------------------------------------------------ vocabulary of the claims
ListRequests == SelectSeq(requests, LAMBDA r : r.kind = "list")
DetailRequests == SelectSeq(requests, LAMBDA r : r.kind = "detail")

Terminal == pc \in {"returned", "raised"}
\* scrape_jobs() has returned or raised
ScrapeOver ==
    pc \notin {"start", "list_loop", "list_wait", "listed", "detail_loop", "detail_wait"}
\* the listing loop has been left
ListingOver == pc \notin {"start", "list_loop", "list_wait"}

\* the sequence of entries a history file holds
PersistedSeq(file) == IF file.kind = "list" THEN file.entries ELSE <<>>
\* the entries this run has added to the history
Written ==
    SubSeq(PersistedSeq(history_file), Len(PersistedSeq(history_at_start)) + 1,
           Len(PersistedSeq(history_file)))
WrittenStatuses == {Written[i].status : i \in 1..Len(Written)}

RECURSIVE Flatten(_)
\* the items of a sequence of listing responses, in order
Flatten(rs) == IF rs = <<>> THEN <<>> ELSE Head(rs).items \o Flatten(Tail(rs))

RowsOfPath(p) == {j \in 1..Len(final_df) : final_df[j].externalPath = p}

\* C1: every run of main() that has ended, by return or by raise, has added
\* exactly one entry to the run history.
C1_OneEntryPerRun == Terminal => Len(Written) = 1

\* C2: once scrape_jobs is over with a non-empty deduplicated listing, there is
\* an output table and every externalPath of the listing is the path of exactly
\* one of its rows, whatever detail records were fetched.
C2_EveryPathOnce ==
    (ScrapeOver /\ roles_df # <<>>) =>
        /\ ~df.none
        /\ \A i \in 1..Len(roles_df) : Cardinality(RowsOfPath(roles_df[i].externalPath)) = 1

\* C3: when a detail fetch has failed, scrape_jobs still returns a table holding
\* a row for the failing path (without detail fields when no fetch of that path
\* succeeded), and the run that ends without an export or console failure ends
\* with a 'success' entry.
C3_DetailFailureTolerated ==
    (ScrapeOver /\ \E i \in 1..Len(detail_outcomes) : detail_outcomes[i] = "fail") =>
        /\ ~df.none
        /\ \A i \in 1..Len(detail_outcomes) :
              detail_outcomes[i] = "fail" =>
                 /\ RowsOfPath(roles_df[i].externalPath) # {}
                 /\ (\A j \in 1..Len(detail_outcomes) :
                        roles_df[j].externalPath = roles_df[i].externalPath
                            => detail_outcomes[j] # "ok")
                    => \A r \in RowsOfPath(roles_df[i].externalPath) :
                          final_df[r].jobPostingInfo = NaN
        /\ exc \in {NoneVal, "OSError", "UnicodeEncodeError"}
        /\ (pc = "returned" => "success" \in WrittenStatuses)

\* C4: the listing requests are for offsets 0, 20, 40, ... in this order, 25 at
\* most and 480 the last; a request follows a response only when that response
\* held items; the loop is left only after a response without items or after
\* the 25th response; the items retained are those of all responses, in order;
\* a page of 20 items followed by an empty page makes 2 requests and 20 items.
C4_ListingStops ==
    LET L == ListRequests
        n == Len(ListRequests)
        m == Len(responses) IN
    /\ n <= 25
    /\ \A i \in 1..n : L[i].offset = 20 * (i - 1) /\ L[i].offset <= 480
    /\ m <= n /\ n <= m + 1
    /\ (pc = "list_wait") = (n = m + 1)
    /\ \A i \in 1..m : i < n => responses[i].items # <<>>
    /\ pc = "list_loop" => (m < 25 /\ \A i \in 1..m : responses[i].items # <<>>)
    /\ ListingOver => (m >= 1 /\ (responses[m].items = <<>> \/ m = 25))
    /\ collect_list_roles = Flatten(responses)
    /\ (ListingOver /\ m >= 2 /\ Len(responses[1].items) = 20 /\ responses[2].items = <<>>)
          => (n = 2 /\ Len(collect_list_roles) = 20)

\* the loop has run to the offset bound: 25 pages, none of them empty
C4_Witness ==
    /\ pc = "listed"
    /\ Len(ListRequests) = 25
    /\ responses[25].items # <<>>
    /\ Len(collect_list_roles) = 500

\* C5: a run that has ended after a listing collection of zero items has added
\* the single entry ('no_data', 0) to the history, has issued no detail request,
\* has written no export file and has returned without raising.
C5_NoData ==
    (Terminal /\ collect_list_roles = <<>> /\ exc # "TypeError") =>
        /\ Len(Written) = 1
        /\ Written[1].status = "no_data" /\ Written[1].records_scraped = 0
        /\ DetailRequests = <<>>
        /\ \A f \in DOMAIN output_files : ~output_files[f].exists
        /\ pc = "returned" /\ raised = NoneVal

\* C6: a run that raises has recorded an 'error' entry carrying the text of the
\* exception it raises, and no 'success' or 'no_data' entry; a run that returns
\* has recorded no 'error' entry and raises nothing.
C6_ErrorRecordedThenRaised ==
    /\ pc = "raised" =>
          /\ exc # NoneVal /\ raised = exc
          /\ Written # <<>>
          /\ Written[Len(Written)].status = "error"
          /\ Written[Len(Written)].error = ExcText(raised)
          /\ WrittenStatuses = {"error"}
    /\ pc = "returned" =>
          /\ raised = NoneVal
          /\ "error" \notin WrittenStatuses
          /\ WrittenStatuses \in {{"success"}, {"no_data"}}

C8_ListFailureIsEmptyPage ==
    \A i \in 1..Len(responses) :
        responses[i].kind = "fail" =>
            /\ i = Len(ListRequests)
            /\ \A a, b \in 1..Len(ListRequests) :
                  ListRequests[a].offset = ListRequests[b].offset => a = b
            /\ pc \notin {"list_loop", "list_wait"}
            /\ exc # "TypeError"
            /\ collect_list_roles = Flatten(SubSeq(responses, 1, i - 1))
            /\ (pc # "listed" /\ collect_list_roles # <<>>) =>
                  \A x \in 1..Len(collect_list_roles) :
                     \E y \in 1..Len(roles_df) :
                        roles_df[y].bulletFields = collect_list_roles[x].bulletFields

\* a failed second page, and the run went on to return the first page's table
C8_Witness ==
    /\ Len(responses) = 2
    /\ responses[2].kind = "fail"
    /\ pc = "returned"
    /\ ~df.none

\* C9: the detail requests are for the paths of the rows of the deduplicated
\* listing, one per row and in its order, all of them once the detail loop is
\* over; no listing request follows a detail request; at most one request is
\* in flight.
C9_DetailSequential ==
    LET D == DetailRequests IN
    /\ in_flight \in {0, 1}
    /\ (in_flight = 1) = (pc \in {"list_wait", "detail_wait"})
    /\ Len(D) <= Len(roles_df)
    /\ \A i \in 1..Len(D) : D[i].path = roles_df[i].externalPath
    /\ Len(D) = Len(detail_outcomes) + (IF pc = "detail_wait" THEN 1 ELSE 0)
    /\ (ScrapeOver /\ roles_df # <<>>) => Len(D) = Len(roles_df)
    /\ \A i, j \in 1..Len(requests) :
          (i < j /\ requests[i].kind = "detail") => requests[j].kind = "detail"
    /\ \A a, b \in 1..Len(roles_df) :
          roles_df[a].bulletFields = roles_df[b].bulletFields => a = b

\* two rows, the first detail fetch failed, and both were requested
C9_Witness ==
    /\ ScrapeOver
    /\ Len(roles_df) = 2
    /\ detail_outcomes = <<"fail", "ok">>
    /\ Len(DetailRequests) = 2

\* C10: a 'success' entry is in the history only when the three files exist,
\* written in the order Excel, CSV, JSON from the table whose row count the
\* entry records; after a failed write the formats written before it hold the
\* table, the later ones do not exist, and the run records 'error', not
\* 'success'.
C10_SuccessAfterExport ==
    /\ "success" \in WrittenStatuses =>
          /\ ~df.none
          /\ exported_files = Formats
          /\ \A f \in DOMAIN output_files :
                output_files[f].exists /\ output_files[f].rows = df.rows
          /\ Written[1].status = "success"
          /\ Written[1].records_scraped = Len(df.rows)
    /\ (pc \in {"except", "raised"} /\ exc = "OSError") =>
          /\ Len(exported_files) < Len(Formats)
          /\ exported_files = SubSeq(Formats, 1, Len(exported_files))
          /\ \A i \in 1..Len(Formats) :
                /\ i <= Len(exported_files) =>
                      (output_files[Formats[i]].exists /\ output_files[Formats[i]].rows = df.rows)
                /\ i > Len(exported_files) + 1 => ~output_files[Formats[i]].exists
          /\ pc = "raised" => WrittenStatuses = {"error"}

\* a run that exported the three files and recorded its success
C10_Witness ==
    /\ pc = "returned"
    /\ "success" \in WrittenStatuses
    /\ Len(df.rows) = 2

====
